---- MODULE Spec2Model ----
(***************************************************************************)
(* Model of dx/settings.py: the validated Settings store, set_option,      *)
(* set_display_mode, set_log_level, settings_context and                   *)
(* add_renderable_type, together with the external state they write: the   *)
(* pandas option store, the "dx" logger and the IPython formatter          *)
(* registration.                                                           *)
(*                                                                         *)
(* The program is single threaded.  Every action below is one call of the  *)
(* public API made by the caller (or by the body of the innermost open     *)
(* settings_context), modelled to its return or to the exception it        *)
(* raises.                                                                 *)
(***************************************************************************)
EXTENDS Integers, Sequences, FiniteSets, TLC

VARIABLES settings, pd, logger, fmt, stack, last, nops

vars == <<settings, pd, logger, fmt, stack, last, nops>>

(***************************************************************************)
(* Bounds of the model.                                                    *)
(***************************************************************************)
\* row / column values offered to the API are -1 .. MaxVal
MaxVal == 1
\* open settings_context scopes nested at any time
MaxDepth == 2
\* API calls in one behaviour (the end of a with block is not a call)
MaxOps == 3

(***************************************************************************)
(* Program constants.                                                      *)
(***************************************************************************)
DefaultMaxRows == 60
DefaultMaxColumns == 20
\* logging.WARNING, logging.DEBUG
LogWarning == 30
LogDebug == 10
\* logging.NOTSET, the level of a logger nobody has set
LogNotSet == 0

(***************************************************************************)
(* Display modes.  DXDisplayMode (dx/types.py) is a closed enumeration of  *)
(* three members whose values are their names.  A mode value is a member   *)
(* <<"enum", n>> or a plain string <<"str", s>>.                           *)
(***************************************************************************)
ModeNames == {"enhanced", "simple", "plain"}
DXDisplayMode == {<<"enum", n>> : n \in ModeNames}

\* str(mode): a member prints as its value, a string as itself.
ModeStr(mode) == mode[2]

\* DXDisplayMode(v): the member that v is or whose value v is, if any.
IsMode(v) == v[2] \in ModeNames
AsMode(v) == <<"enum", v[2]>>

(***************************************************************************)
(* The Settings fields, in the order pydantic keeps them (annotated fields *)
(* in order of declaration, then the un-annotated LOG_LEVEL).  vars() and  *)
(* .dict() iterate in this order.  The fields of the class that have no    *)
(* validator, no mirrored option and no dispatch in set_option are all     *)
(* handled alike; ENABLE_DATALINK stands for them.                         *)
(***************************************************************************)
FieldOrder ==
    << "DISPLAY_MAX_ROWS", "DISPLAY_MAX_COLUMNS", "HTML_TABLE_SCHEMA",
       "RENDERABLE_OBJECTS", "DISPLAY_MODE", "ENABLE_DATALINK", "LOG_LEVEL" >>

Fields == {FieldOrder[i] : i \in 1..Len(FieldOrder)}

\* Settings(): the class defaults.
DefaultSettings ==
    [ DISPLAY_MAX_ROWS    |-> DefaultMaxRows,
      DISPLAY_MAX_COLUMNS |-> DefaultMaxColumns,
      HTML_TABLE_SCHEMA   |-> FALSE,
      RENDERABLE_OBJECTS  |-> {},
      DISPLAY_MODE        |-> <<"enum", "simple">>,
      ENABLE_DATALINK     |-> FALSE,
      LOG_LEVEL           |-> LogWarning ]

\* str(key).upper() on the spellings the model offers.
Upper(key) ==
    CASE key = "display_max_rows" -> "DISPLAY_MAX_ROWS"
      [] key = "Display_Mode"     -> "DISPLAY_MODE"
      [] key = "display_mode"     -> "DISPLAY_MODE"
      [] key = "not_a_setting"    -> "NOT_A_SETTING"
      [] OTHER                    -> key

(***************************************************************************)
(* Elements of RENDERABLE_OBJECTS and values offered for it.  An element   *)
(* is a resolved type <<"type", n>> or a raw string <<"str", s>>.          *)
(***************************************************************************)
TypeNames == {"int", "str"}
Types == {<<"type", n>> : n \in TypeNames}
RawStrings == {<<"str", "int">>, <<"str", "foo">>}
Elems == Types \cup RawStrings

IsType(e) == e[1] = "type"

\* eval(str(val)) for a raw string: a name bound to a type evaluates to it,
\* any other name raises.
EvalOk(e) == e[2] \in TypeNames
Eval(e) == <<"type", e[2]>>

(***************************************************************************)
(* The state an API call works on, with what the call did so far: the      *)
(* formatter actions invoked (acts), the writes to the pandas option store *)
(* (pushes), the calls of set_option and set_display_mode made, with their *)
(* arguments (calls), and the exception in flight (err, "none" while there *)
(* is none).  fault tells whether the session's formatter actions raise    *)
(* during the call.                                                        *)
(***************************************************************************)
World ==
    [ settings |-> settings, pd |-> pd, logger |-> logger, fmt |-> fmt,
      acts |-> <<>>, pushes |-> <<>>, calls |-> <<>>, err |-> "none",
      fault |-> FALSE ]

\* the same state with a session whose formatter actions raise
FaultyWorld == [World EXCEPT !.fault = TRUE]

Raise(w, e) == [w EXCEPT !.err = e]

\* a function of the module is called
Called(w, call) == [w EXCEPT !.calls = Append(@, call)]

\* One statement after another: v is evaluated, then F runs on its value.
Then(v, F(_)) == CHOOSE r \in {F(x) : x \in {v}} : TRUE

\* pd.set_option(option, value)
pandas_set_option(w, option, value) ==
    [w EXCEPT !.pd[option] = value, !.pushes = Append(@, <<option, value>>)]

\* The value set_option is handed to write back a stored field value.
AsValue(key, stored) ==
    IF key = "RENDERABLE_OBJECTS" THEN <<"set", stored>> ELSE stored

(***************************************************************************)
(* Settings.validate_renderables.  A value is a single element (a type or  *)
(* a string) or <<"set", S>>.  A string is split into a list, and a value  *)
(* that is not a set is wrapped as {vals}: for the list that is a          *)
(* TypeError (unhashable), so every string value fails.  Each element of   *)
(* the set is kept if it is a type and evaluated otherwise.                *)
(***************************************************************************)
validate_renderables(vals) ==
    IF vals[1] = "str"
    THEN [ok |-> FALSE, v |-> {}]
    ELSE LET S == IF vals[1] = "set" THEN vals[2] ELSE {vals}
         IN  IF \A e \in S : IsType(e) \/ EvalOk(e)
             THEN [ok |-> TRUE,
                   v  |-> {IF IsType(e) THEN e ELSE Eval(e) : e \in S}]
             ELSE [ok |-> FALSE, v |-> {}]

(***************************************************************************)
(* The field validators (pre=True, always=True).  Each returns the world   *)
(* after its side effect, whether it accepted the value, and the value it  *)
(* returns.                                                                *)
(***************************************************************************)
\* faulty variant: the columns validator writes the option before its range check
validate_display_max_columns_push_first(w, val) ==
    [w |-> pandas_set_option(w, "max_columns", val), ok |-> val >= 0, v |-> val]

\* faulty variant: the columns validator writes the rows option
validate_display_max_columns_rows_option(w, val) ==
    IF val < 0
    THEN [w |-> w, ok |-> FALSE, v |-> val]
    ELSE [w |-> pandas_set_option(w, "max_rows", val), ok |-> TRUE, v |-> val]

validate_display_max_columns(w, val) ==
    IF val < 0
    THEN [w |-> w, ok |-> FALSE, v |-> val]
    ELSE [w |-> pandas_set_option(w, "max_columns", val), ok |-> TRUE, v |-> val]

\* faulty variant: the rows validator without its range check
validate_display_max_rows_unchecked(w, val) ==
    [w |-> pandas_set_option(w, "max_rows", val), ok |-> TRUE, v |-> val]

validate_display_max_rows(w, val) ==
    IF val < 0
    THEN [w |-> w, ok |-> FALSE, v |-> val]
    ELSE [w |-> pandas_set_option(w, "max_rows", val), ok |-> TRUE, v |-> val]

validate_html_table_schema(w, val) ==
    [w |-> pandas_set_option(w, "table_schema", val), ok |-> TRUE, v |-> val]

\* The conversion to the field's declared type that follows the validator.
\* The model offers values of the declared type, except for DISPLAY_MODE:
\* a value that is no member of DXDisplayMode, nor the value of one, is
\* rejected, and the value of a member is replaced by the member.
TypeOk(key, v) == IF key = "DISPLAY_MODE" THEN IsMode(v) ELSE TRUE
Coerce(key, v) == IF key = "DISPLAY_MODE" THEN AsMode(v) ELSE v

Validate(w, key, value) ==
    CASE key = "DISPLAY_MAX_ROWS"    -> validate_display_max_rows(w, value)
      [] key = "DISPLAY_MAX_COLUMNS" -> validate_display_max_columns(w, value)
      [] key = "HTML_TABLE_SCHEMA"   -> validate_html_table_schema(w, value)
      [] key = "RENDERABLE_OBJECTS"  ->
            LET r == validate_renderables(value)
            IN  [w |-> w, ok |-> r.ok, v |-> r.v]
      [] OTHER                       -> [w |-> w, ok |-> TRUE, v |-> value]

(***************************************************************************)
(* setattr(settings, key, value) under Config.validate_assignment: the     *)
(* field's validator runs, then the field's type is checked, and only then *)
(* is the value stored.  A failure raises pydantic's ValidationError and   *)
(* leaves the field as it was.                                             *)
(***************************************************************************)
SetAttr(w, key, value) ==
    Then(Validate(w, key, value), LAMBDA r :
         IF r.ok /\ TypeOk(key, r.v)
         THEN [r.w EXCEPT !.settings[key] = Coerce(key, r.v)]
         ELSE Raise(r.w, "ValidationError"))

(***************************************************************************)
(* The formatter actions of dx.formatters: each leaves the session in the  *)
(* registration state of its mode, or raises and leaves it as it was.      *)
(***************************************************************************)
FormatterAction(w, name, state) ==
    IF w.fault
    THEN Raise([w EXCEPT !.acts = Append(@, name)], "FormatterError")
    ELSE [w EXCEPT !.fmt = state, !.acts = Append(@, name)]

register(w)   == FormatterAction(w, "register", "enhanced")
deregister(w) == FormatterAction(w, "deregister", "simple")
reset(w)      == FormatterAction(w, "reset", "plain")

\* faulty variant: the actions of simple and plain exchanged
set_display_mode_swapped(w, mode) ==
    Then(SetAttr(Called(w, <<"set_display_mode", mode>>), "DISPLAY_MODE", mode),
         LAMBDA w1 :
         IF w1.err # "none" THEN w1
         ELSE CASE ModeStr(mode) = "enhanced" -> register(w1)
                [] ModeStr(mode) = "simple"   -> reset(w1)
                [] ModeStr(mode) = "plain"    -> deregister(w1)
                [] OTHER                      -> Raise(w1, "UnsupportedMode"))

\* faulty variant: the action is chosen by the mode the field held before the call
set_display_mode_stale(w, mode) ==
    Then(SetAttr(Called(w, <<"set_display_mode", mode>>), "DISPLAY_MODE", mode),
         LAMBDA w1 :
         IF w1.err # "none" THEN w1
         ELSE CASE ModeStr(w.settings.DISPLAY_MODE) = "enhanced" -> register(w1)
                [] ModeStr(w.settings.DISPLAY_MODE) = "simple"   -> deregister(w1)
                [] ModeStr(w.settings.DISPLAY_MODE) = "plain"    -> reset(w1)
                [] OTHER -> Raise(w1, "UnsupportedMode"))

\* set_display_mode(mode)
set_display_mode(w, mode) ==
    Then(SetAttr(Called(w, <<"set_display_mode", mode>>), "DISPLAY_MODE", mode),
         LAMBDA w1 :
         IF w1.err # "none" THEN w1
         ELSE CASE ModeStr(mode) = "enhanced" -> register(w1)
                [] ModeStr(mode) = "simple"   -> deregister(w1)
                [] ModeStr(mode) = "plain"    -> reset(w1)
                [] OTHER                      -> Raise(w1, "UnsupportedMode"))

\* set_log_level(level)
set_log_level(w, level) == [w EXCEPT !.logger = level]

\* pd_options of set_option
pd_options ==
    [ DISPLAY_MAX_ROWS    |-> "max_rows",
      DISPLAY_MAX_COLUMNS |-> "max_columns",
      HTML_TABLE_SCHEMA   |-> "table_schema" ]

\* set_option(key, value) for a key that names a field
set_option_field(w, key, value) ==
    Then(SetAttr(w, key, value), LAMBDA w1 :
         IF w1.err # "none" THEN w1
         ELSE Then(IF key \in DOMAIN pd_options
                   THEN pandas_set_option(w1, pd_options[key], value)
                   ELSE w1, LAMBDA w2 :
              Then(IF key = "DISPLAY_MODE"
                   THEN set_display_mode(w2, value)
                   ELSE w2, LAMBDA w3 :
                   IF w3.err # "none" THEN w3
                   ELSE IF key = "LOG_LEVEL" THEN set_log_level(w3, value)
                   ELSE w3)))

\* faulty variant: the key is looked up as it was spelled
set_option_case_sensitive(w, rawkey, value) ==
    Then(Called(w, <<"set_option", rawkey, value>>), LAMBDA w0 :
         IF rawkey \in Fields
         THEN set_option_field(w0, rawkey, value)
         ELSE Raise(w0, "UnknownSetting"))

\* faulty variant: a key that names no field is ignored
set_option_ignore_unknown(w, rawkey, value) ==
    LET key == Upper(rawkey)
    IN  Then(Called(w, <<"set_option", rawkey, value>>), LAMBDA w0 :
             IF key \in Fields THEN set_option_field(w0, key, value) ELSE w0)

\* set_option(key, value)
set_option(w, rawkey, value) ==
    LET key == Upper(rawkey)
    IN  Then(Called(w, <<"set_option", rawkey, value>>), LAMBDA w0 :
             IF key \in Fields
             THEN set_option_field(w0, key, value)
             ELSE Raise(w0, "UnknownSetting"))

(***************************************************************************)
(* settings_context.                                                       *)
(***************************************************************************)
\* faulty variant: the snapshot of a fresh Settings() instead of the live one
Snapshot_of_defaults(w) == DefaultSettings

\* settings.dict(): a mapping of every field to a copy of its value.
Snapshot(w) == w.settings

\* The finally block: set_option for every item of orig_settings, in order;
\* the first call that raises ends the loop.
RECURSIVE Restore(_, _, _)
Restore(w, orig, i) ==
    IF i > Len(FieldOrder) THEN w
    ELSE Then(set_option(w, FieldOrder[i],
                         AsValue(FieldOrder[i], orig[FieldOrder[i]])),
              LAMBDA w1 :
              IF w1.err # "none" THEN w1 ELSE Restore(w1, orig, i + 1))

\* {str(k).upper(): v for k, v in option_kwargs.items()}: a key keeps the
\* place of its first spelling and takes the value of its last.
RECURSIVE NormalizeKwargs(_)
NormalizeKwargs(kwargs) ==
    IF kwargs = <<>> THEN <<>>
    ELSE LET n    == Len(kwargs)
             key  == Upper(kwargs[n][1])
             item == <<key, kwargs[n][2]>>
         IN  Then(NormalizeKwargs(SubSeq(kwargs, 1, n - 1)), LAMBDA front :
                  IF \E i \in 1..Len(front) : front[i][1] = key
                  THEN [i \in 1..Len(front) |->
                           IF front[i][1] = key THEN item ELSE front[i]]
                  ELSE Append(front, item))

\* option_kwargs.pop("DISPLAY_MODE", None)
HasKey(items, key) == \E i \in 1..Len(items) : items[i][1] = key
Lookup(items, key) == items[CHOOSE i \in 1..Len(items) : items[i][1] = key][2]
Pop(items, key) == SelectSeq(items, LAMBDA it : it[1] # key)

\* the truth value of a popped display mode
Truthy(v) == v[2] # ""

\* The for loop of the try block: set_option for every remaining override.
RECURSIVE ApplyOverrides(_, _, _)
ApplyOverrides(w, items, i) ==
    IF i > Len(items) THEN w
    ELSE Then(set_option(w, items[i][1], items[i][2]), LAMBDA w1 :
              IF w1.err # "none" THEN w1 ELSE ApplyOverrides(w1, items, i + 1))

\* An exception raised while err is in flight replaces it and keeps it as
\* its __context__.
RaisedIn(w, inflight) ==
    IF w.err # "none"
    THEN [err |-> w.err, ctx |-> inflight]
    ELSE [err |-> inflight, ctx |-> "none"]

\* faulty variant: the display mode is applied after the other overrides
EnterScope_mode_last(w, kwargs) ==
    Then(NormalizeKwargs(kwargs), LAMBDA options :
    Then(ApplyOverrides(w, Pop(options, "DISPLAY_MODE"), 1), LAMBDA w1 :
         IF w1.err # "none"
         THEN Then(Restore(Raise(w1, "none"), Snapshot(w), 1), LAMBDA w3 :
                   [w |-> Raise(w3, RaisedIn(w3, w1.err).err),
                    entered |-> FALSE, orig |-> Snapshot(w),
                    ctx |-> RaisedIn(w3, w1.err).ctx])
         ELSE
    Then(IF HasKey(options, "DISPLAY_MODE")
            /\ Truthy(Lookup(options, "DISPLAY_MODE"))
         THEN set_display_mode(w1, Lookup(options, "DISPLAY_MODE"))
         ELSE w1, LAMBDA w2 :
         [w |-> w2, entered |-> w2.err = "none", orig |-> Snapshot(w),
          ctx |-> "none"])))

(***************************************************************************)
(* settings_context up to its yield.  entered tells whether the body runs. *)
(***************************************************************************)
EnterScope(w, kwargs) ==
    Then(NormalizeKwargs(kwargs), LAMBDA options :
    Then(IF HasKey(options, "DISPLAY_MODE")
            /\ Truthy(Lookup(options, "DISPLAY_MODE"))
         THEN set_display_mode(w, Lookup(options, "DISPLAY_MODE"))
         ELSE w, LAMBDA w1 :
         IF w1.err # "none"
         THEN [w |-> w1, entered |-> FALSE, orig |-> Snapshot(w),
               ctx |-> "none"]
         ELSE
    Then(ApplyOverrides(w1, Pop(options, "DISPLAY_MODE"), 1), LAMBDA w2 :
         IF w2.err = "none"
         THEN [w |-> w2, entered |-> TRUE, orig |-> Snapshot(w),
               ctx |-> "none"]
         ELSE
    Then(Restore(Raise(w2, "none"), Snapshot(w), 1), LAMBDA w3 :
         [w |-> Raise(w3, RaisedIn(w3, w2.err).err), entered |-> FALSE,
          orig |-> Snapshot(w), ctx |-> RaisedIn(w3, w2.err).ctx]))))

(***************************************************************************)
(* settings_context from its yield on: the body returned (thrown = "none") *)
(* or raised thrown; the finally block restores.                           *)
(***************************************************************************)
ExitScope(w, orig, thrown) ==
    Then(Restore(w, orig, 1), LAMBDA w1 :
         [w |-> Raise(w1, RaisedIn(w1, thrown).err),
          ctx |-> RaisedIn(w1, thrown).ctx])

\* faulty variant: the given types replace the set instead of joining it
add_renderable_type_replace(w, renderable_type) ==
    LET items == IF renderable_type[1] = "list"
                 THEN renderable_type[2]
                 ELSE {renderable_type}
    IN  [w EXCEPT !.settings.RENDERABLE_OBJECTS = items]

\* add_renderable_type(renderable_type): a list is used as it is, anything
\* else is wrapped in one; the live set is updated in place.
add_renderable_type(w, renderable_type) ==
    LET items == IF renderable_type[1] = "list"
                 THEN renderable_type[2]
                 ELSE {renderable_type}
    IN  [w EXCEPT !.settings.RENDERABLE_OBJECTS = @ \cup items]

(***************************************************************************)
(* The values the caller passes.                                           *)
(***************************************************************************)
IntVals == -1..MaxVal
ModeVals ==
    {<<"str", n>> : n \in ModeNames \cup {"fancy"}} \cup {<<"enum", "enhanced">>}
LevelVals == {LogDebug, LogWarning}

\* values for RENDERABLE_OBJECTS: a type, a string, sets of one element
RenderableVals ==
    {<<"type", "int">>, <<"str", "int">>} \cup {<<"set", {e}>> : e \in RawStrings}

\* arguments of add_renderable_type: a type, a string, a list of two types
RenderableArgs ==
    {<<"type", "int">>, <<"str", "int">>, <<"str", "foo">>,
     <<"list", Types>>}

OptionInputs ==
    ({"display_max_rows", "DISPLAY_MAX_COLUMNS"} \X IntVals)
    \cup {<<"HTML_TABLE_SCHEMA", TRUE>>, <<"ENABLE_DATALINK", TRUE>>}
    \cup ({"RENDERABLE_OBJECTS"} \X RenderableVals)
    \cup ({"DISPLAY_MODE"} \X {<<"str", "enhanced">>, <<"str", "fancy">>})
    \cup {<<"Display_Mode", <<"str", "plain">>>>}
    \cup ({"LOG_LEVEL"} \X LevelVals)
    \cup {<<"not_a_setting", 0>>}

\* the keyword overrides of one settings_context call, in the order given
Batches ==
    {<<>>}
    \cup {<<<<"display_max_rows", v>>>> : v \in IntVals}
    \cup {<<<<"DISPLAY_MODE", <<"str", m>>>>>> :
             m \in {"enhanced", "plain", "fancy"}}
    \cup {<<<<"display_max_rows", 0>>, <<"display_mode", <<"str", "enhanced">>>>>>,
          <<<<"HTML_TABLE_SCHEMA", TRUE>>, <<"DISPLAY_MODE", <<"str", "plain">>>>,
            <<"DISPLAY_MAX_COLUMNS", 0>>>>,
          <<<<"ENABLE_DATALINK", TRUE>>, <<"not_a_setting", 0>>>>,
          <<<<"LOG_LEVEL", LogDebug>>, <<"HTML_TABLE_SCHEMA", TRUE>>>>,
          <<<<"display_max_rows", 0>>, <<"DISPLAY_MAX_ROWS", 1>>>>}

\* What the last call was and how it ended: the exception the caller sees
\* (err) and its __context__ (ctx), the formatter actions and option writes
\* it made, the calls of set_option and set_display_mode made by it or for
\* it, for settings_context the overrides of the scope entered or left,
\* and whether the call set the display mode the call before it had set.
NoCall ==
    [ op |-> "none", key |-> "", val |-> 0, err |-> "none", ctx |-> "none",
      acts |-> <<>>, pushes |-> <<>>, calls |-> <<>>, entered |-> FALSE,
      kwargs |-> <<>>, repeat |-> FALSE ]

\* a call of the mode controller: set_display_mode, or set_option on the
\* display-mode field
ModeCall(l) ==
    \/ l.op = "set_display_mode"
    \/ l.op = "set_option" /\ Upper(l.key) = "DISPLAY_MODE"

(***************************************************************************)
(* Init: the module has been imported.  Settings() ran every validator on  *)
(* the defaults (always=True), which wrote the three mirrored options; no  *)
(* formatter action has run and the logger has no level of its own.        *)
(***************************************************************************)
Init ==
    /\ settings = DefaultSettings
    /\ pd = [ max_rows     |-> DefaultMaxRows,
              max_columns  |-> DefaultMaxColumns,
              table_schema |-> FALSE ]
    /\ logger = LogNotSet
    /\ fmt = "plain"
    /\ stack = <<>>
    /\ last = NoCall
    /\ nops = 0

\* The call returned or raised, leaving world w.
Return(w, op, key, val, ctx, entered, kwargs) ==
    /\ nops' = IF op = "exit" THEN nops ELSE nops + 1
    /\ settings' = w.settings
    /\ pd' = w.pd
    /\ logger' = w.logger
    /\ fmt' = w.fmt
    /\ last' = LET l == [ op |-> op, key |-> key, val |-> val, err |-> w.err,
                          ctx |-> ctx, acts |-> w.acts, pushes |-> w.pushes,
                          calls |-> w.calls,
                          entered |-> entered, kwargs |-> kwargs,
                          repeat |-> FALSE ]
               IN  [l EXCEPT !.repeat =
                        /\ ModeCall(l) /\ l.err = "none"
                        /\ ModeCall(last) /\ last.err = "none"
                        /\ ModeStr(last.val) = ModeStr(l.val)]

SetOption(key, value) ==
    /\ nops < MaxOps
    /\ \E w \in {set_option(World, key, value)} :
          Return(w, "set_option", key, value, "none", FALSE, <<>>)
    /\ UNCHANGED stack

SetDisplayMode(mode) ==
    /\ nops < MaxOps
    /\ \E w \in {set_display_mode(World, mode)} :
          Return(w, "set_display_mode", "DISPLAY_MODE", mode, "none", FALSE,
                 <<>>)
    /\ UNCHANGED stack

SetLogLevel(level) ==
    /\ nops < MaxOps
    /\ \E w \in {set_log_level(World, level)} :
          Return(w, "set_log_level", "LOG_LEVEL", level, "none", FALSE, <<>>)
    /\ UNCHANGED stack

AddRenderableType(x) ==
    /\ nops < MaxOps
    /\ \E w \in {add_renderable_type(World, x)} :
          Return(w, "add_renderable_type", "RENDERABLE_OBJECTS", x, "none",
                 FALSE, <<>>)
    /\ UNCHANGED stack

\* with settings_context(**kwargs): the scope is entered, or the call raises.
\* A frame keeps orig_settings.  For the statement of properties only it
\* also records the overrides given (kwargs), the external state at entry
\* (at) and whether a scope was opened inside this one (nested).
Entered(r, kwargs) ==
    /\ Return(r.w, "enter", "", 0, r.ctx, r.entered, kwargs)
    /\ stack' = IF r.entered
                THEN Append(
                       [i \in 1..Len(stack) |->
                           [stack[i] EXCEPT !.nested = @ \/ i = Len(stack)]],
                       [ orig   |-> r.orig,
                         kwargs |-> kwargs,
                         at     |-> [ pd |-> pd, logger |-> logger,
                                      fmt |-> fmt ],
                         nested |-> FALSE ])
                ELSE stack

Enter(kwargs) ==
    /\ nops < MaxOps
    /\ Len(stack) < MaxDepth
    /\ \E r \in {EnterScope(World, kwargs)} : Entered(r, kwargs)

\* with settings_context(**kwargs) in a session whose formatter actions
\* raise; the overrides name a display mode.
EnterFormatterFails(kwargs) ==
    /\ HasKey(NormalizeKwargs(kwargs), "DISPLAY_MODE")
    /\ IsMode(Lookup(NormalizeKwargs(kwargs), "DISPLAY_MODE"))
    /\ nops < MaxOps
    /\ Len(stack) < MaxDepth
    /\ \E r \in {EnterScope(FaultyWorld, kwargs)} : Entered(r, kwargs)

\* The with block ends: the body of the innermost scope returned, or raised
\* BodyError.
Exit(thrown) ==
    /\ stack # <<>>
    /\ \E r \in {ExitScope(World, stack[Len(stack)].orig, thrown)} :
          Return(r.w, "exit", "", thrown, r.ctx, FALSE,
                 stack[Len(stack)].kwargs)
    /\ stack' = SubSeq(stack, 1, Len(stack) - 1)

Next ==
    \/ \E kv \in OptionInputs : SetOption(kv[1], kv[2])
    \/ \E mode \in ModeVals : SetDisplayMode(mode)
    \/ \E level \in LevelVals \ {LogWarning} : SetLogLevel(level)
    \/ \E x \in RenderableArgs : AddRenderableType(x)
    \/ \E kwargs \in Batches : Enter(kwargs)
    \/ \E thrown \in {"none", "BodyError"} : Exit(thrown)

Spec == Init /\ [][Next]_vars

\* The same program in a session whose formatter actions may raise when a
\* scope is entered.
NextFormatterFault ==
    \/ Next
    \/ \E kwargs \in Batches : EnterFormatterFails(kwargs)

SpecFormatterFault == Init /\ [][NextFormatterFault]_vars

(***************************************************************************)
(* Properties.                                                             *)
(***************************************************************************)
SizeFields == {"DISPLAY_MAX_ROWS", "DISPLAY_MAX_COLUMNS"}

\* the overrides of a scope as settings_context sees them
OverridesRows(kwargs) == HasKey(NormalizeKwargs(kwargs), "DISPLAY_MAX_ROWS")
RowsOverride(kwargs) == Lookup(NormalizeKwargs(kwargs), "DISPLAY_MAX_ROWS")

\* C1: when a settings_context exits, normally or because its body raised,
\* every configuration field equals the value captured at scope entry.
C1_ExitRestoresSnapshot ==
    [][last'.op = "exit" => settings' = stack[Len(stack)].orig]_vars

\* C2: set_option of a negative DISPLAY_MAX_ROWS or DISPLAY_MAX_COLUMNS fails
\* with the invalid-value error, and leaves the stored field and the
\* engine's matching option at their values before the call.
C2_NegativeSizeRejected ==
    [][(/\ last'.op = "set_option"
        /\ Upper(last'.key) \in SizeFields
        /\ last'.val < 0)
       => LET key == Upper(last'.key)
          IN  /\ last'.err = "ValidationError"
              /\ settings'[key] = settings[key]
              /\ pd'[pd_options[key]] = pd[pd_options[key]]]_vars

C2_Witness ==
    /\ last.op = "set_option"
    /\ last.key = "display_max_rows"
    /\ last.val < 0
    /\ last.err = "ValidationError"
    /\ settings.DISPLAY_MAX_ROWS = 1
    /\ pd.max_rows = 1

\* C3: set_option of a name that, upper-cased, is no declared field fails
\* with the unknown-setting error and changes no configuration field, no
\* engine option, no logger level, and invokes no formatter action.
C3_UnknownNameRejected ==
    [][(last'.op = "set_option" /\ Upper(last'.key) \notin Fields)
       => /\ last'.err = "UnknownSetting"
          /\ settings' = settings
          /\ pd' = pd
          /\ logger' = logger
          /\ fmt' = fmt
          /\ last'.acts = <<>>
          /\ last'.pushes = <<>>]_vars

C3_Witness ==
    /\ last.op = "set_option"
    /\ last.key = "not_a_setting"
    /\ last.err = "UnknownSetting"
    /\ settings # DefaultSettings
    /\ stack # <<>>

\* C4: of two strictly nested scopes, the inner one's exit leaves the
\* configuration at the values captured at inner entry, and the exit of a
\* scope that held an inner scope leaves it at the values captured at its
\* own entry, however each scope exits.
C4_NestedRestoreInOrder ==
    [][(last'.op = "exit" /\ (Len(stack) >= 2 \/ stack[Len(stack)].nested))
       => settings' = stack[Len(stack)].orig]_vars

\* C5: when the body of a scope raises and a restoring set_option call of
\* the exit fails too, the caller still observes the body's failure.
C5_BodyFailureNotMasked ==
    [][(/\ last'.op = "exit"
        /\ last'.val = "BodyError"
        /\ Restore(World, stack[Len(stack)].orig, 1).err # "none")
       => last'.err = "BodyError"]_vars

\* C6: set_option of a value v >= 0 for DISPLAY_MAX_ROWS or
\* DISPLAY_MAX_COLUMNS succeeds, the stored field and the engine's matching
\* option equal v, and the validator's write and the setter's write are the
\* same write of v to that option.
C6_ValidSizeMirrored ==
    [][(/\ last'.op = "set_option"
        /\ Upper(last'.key) \in SizeFields
        /\ last'.val >= 0)
       => LET key == Upper(last'.key)
              v   == last'.val
          IN  /\ last'.err = "none"
              /\ settings'[key] = v
              /\ pd'[pd_options[key]] = v
              /\ last'.pushes = << <<pd_options[key], v>>,
                                   <<pd_options[key], v>> >>
              /\ \A o \in DOMAIN pd \ {pd_options[key]} : pd'[o] = pd[o]]_vars

C6_Witness ==
    /\ last.op = "set_option"
    /\ last.key = "DISPLAY_MAX_COLUMNS"
    /\ last.val = 0
    /\ last.err = "none"
    /\ settings.DISPLAY_MAX_COLUMNS = 0
    /\ pd.max_columns = 0
    /\ Len(last.pushes) = 2

ActionOf(mode) ==
    CASE ModeStr(mode) = "enhanced" -> "register"
      [] ModeStr(mode) = "simple"   -> "deregister"
      [] ModeStr(mode) = "plain"    -> "reset"

\* C8: a successful set_display_mode(mode), or set_option of DISPLAY_MODE,
\* invokes exactly one formatter action, the one of the target mode.
C8_OneMatchingAction ==
    (ModeCall(last) /\ last.err = "none") => last.acts = <<ActionOf(last.val)>>

C8_Witness ==
    /\ last.op = "set_option"
    /\ last.key = "Display_Mode"
    /\ last.err = "none"
    /\ last.acts = <<"reset">>
    /\ fmt = "plain"

C10_UnsupportedModeError ==
    [][(ModeCall(last') /\ ~IsMode(last'.val))
       => /\ last'.err = "UnsupportedMode"
          /\ last'.acts = <<>>
          /\ settings'.DISPLAY_MODE = settings.DISPLAY_MODE]_vars

\* C11: in every state reachable through the public operations, every
\* element of the RENDERABLE_OBJECTS field is a resolved type, never a raw
\* string or another value that is no type.
C11_RenderablesAreTypes ==
    \A e \in settings.RENDERABLE_OBJECTS : IsType(e)

\* the types an add_renderable_type argument names, when it names only types
OnlyTypes(x) == IF x[1] = "list" THEN x[2] \subseteq Types ELSE x \in Types
GivenTypes(x) == IF x[1] = "list" THEN x[2] ELSE {x}

\* C12: add_renderable_type(x), x a type or a list of types, leaves
\* RENDERABLE_OBJECTS equal to its prior contents unioned with the given
\* types, and changes no other configuration field.
C12_AddIsUnion ==
    [][(last'.op = "add_renderable_type" /\ OnlyTypes(last'.val))
       => settings' = [settings EXCEPT !.RENDERABLE_OBJECTS =
                                           @ \cup GivenTypes(last'.val)]]_vars

C12_Witness ==
    /\ last.op = "add_renderable_type"
    /\ last.val = <<"type", "int">>
    /\ settings.RENDERABLE_OBJECTS = Types
    /\ settings.DISPLAY_MAX_ROWS = 1

\* the display mode a batch of overrides names, if it names one
ModeOverride(kwargs) ==
    /\ HasKey(NormalizeKwargs(kwargs), "DISPLAY_MODE")
    /\ IsMode(Lookup(NormalizeKwargs(kwargs), "DISPLAY_MODE"))
ModeOf(kwargs) == Lookup(NormalizeKwargs(kwargs), "DISPLAY_MODE")

\* the overrides of a batch other than the display mode, in the order given
OtherOverrides(kwargs) ==
    SelectSeq(NormalizeKwargs(kwargs), LAMBDA it : it[1] # "DISPLAY_MODE")

\* C13: entering a scope with a batch that holds a display-mode override
\* first makes the display-mode transition (one set_display_mode call, one
\* formatter action), then applies the remaining overrides through
\* set_option in the order supplied, and only then yields to the body.
C13_ModeFirstThenInOrder ==
    [][(last'.op = "enter" /\ ModeOverride(last'.kwargs))
       => LET mode == ModeOf(last'.kwargs)
              rest == OtherOverrides(last'.kwargs)
          IN  /\ last'.calls # <<>>
              /\ last'.calls[1] = <<"set_display_mode", mode>>
              /\ last'.acts # <<>>
              /\ last'.acts[1] = ActionOf(mode)
              /\ last'.entered
                 => /\ last'.calls =
                          <<<<"set_display_mode", mode>>>>
                          \o [i \in 1..Len(rest) |->
                                 <<"set_option", rest[i][1], rest[i][2]>>]
                    /\ last'.acts = <<ActionOf(mode)>>
                    /\ settings'.DISPLAY_MODE = AsMode(mode)]_vars

C13_Witness ==
    /\ last.op = "enter"
    /\ last.entered
    /\ Len(last.kwargs) = 3
    /\ last.kwargs[2][1] = "DISPLAY_MODE"
    /\ last.calls = << <<"set_display_mode", <<"str", "plain">>>>,
                       <<"set_option", "HTML_TABLE_SCHEMA", TRUE>>,
                       <<"set_option", "DISPLAY_MAX_COLUMNS", 0>> >>
    /\ fmt = "plain"
    /\ pd.table_schema
    /\ pd.max_columns = 0

\* the declared field that a lower-case or mixed-case spelling names
Spelling ==
    [ display_max_rows |-> "DISPLAY_MAX_ROWS",
      Display_Mode     |-> "DISPLAY_MODE",
      display_mode     |-> "DISPLAY_MODE" ]

CanonicalBatch(kwargs) ==
    [i \in 1..Len(kwargs) |->
        <<IF kwargs[i][1] \in DOMAIN Spelling
          THEN Spelling[kwargs[i][1]] ELSE kwargs[i][1],
          kwargs[i][2]>>]

\* the step taken ends as the call that leaves world w would
SameOutcome(w) ==
    /\ settings' = w.settings
    /\ pd' = w.pd
    /\ logger' = w.logger
    /\ fmt' = w.fmt
    /\ last'.acts = w.acts
    /\ last'.pushes = w.pushes
    /\ last'.err = w.err

\* C14: field names are case-insensitive: set_option and settings_context
\* called with a lower-case or mixed-case spelling of a declared field end
\* in the same configuration, engine options, logger level and formatter
\* actions, and with the same success or failure, as with the upper-case
\* name.
C14_CaseInsensitiveNames ==
    [][/\ (last'.op = "set_option" /\ last'.key \in DOMAIN Spelling)
          => SameOutcome(set_option(World, Spelling[last'.key], last'.val))
       /\ (/\ last'.op = "enter"
           /\ \E i \in 1..Len(last'.kwargs) :
                  last'.kwargs[i][1] \in DOMAIN Spelling)
          => /\ SameOutcome(EnterScope(World, CanonicalBatch(last'.kwargs)).w)
             /\ last'.entered =
                   EnterScope(World, CanonicalBatch(last'.kwargs)).entered]_vars

C14_Witness ==
    /\ last.op = "enter"
    /\ last.entered
    /\ Len(last.kwargs) = 2
    /\ last.kwargs[2][1] = "display_mode"
    /\ settings.DISPLAY_MODE = <<"enum", "enhanced">>
    /\ fmt = "enhanced"
    /\ pd.max_rows = 0

\* the display-mode step of an entry with these overrides cannot fail on
\* the value: the batch names no display mode, or names a mode
ModeStepValid(kwargs) ==
    HasKey(NormalizeKwargs(kwargs), "DISPLAY_MODE") => ModeOverride(kwargs)

\* C15: when one of the overrides other than the display mode fails during
\* entry, the body is not run, that error reaches the caller, and every
\* configuration field equals its value before the entry.
C15_FailedEntryRolledBack ==
    [][(/\ last'.op = "enter"
        /\ last'.err # "FormatterError"
        /\ ModeStepValid(last'.kwargs)
        /\ ApplyOverrides(World, OtherOverrides(last'.kwargs), 1).err # "none")
       => /\ ~last'.entered
          /\ stack' = stack
          /\ last'.err =
                ApplyOverrides(World, OtherOverrides(last'.kwargs), 1).err
          /\ settings' = settings]_vars

\* the entry made only the display-mode step, and that step raised
ModeStepRaised(l) ==
    /\ l.op = "enter"
    /\ ~l.entered
    /\ Len(l.calls) = 1
    /\ l.calls[1][1] = "set_display_mode"

\* C16: when the entry of a scope fails in its display-mode step, for one
\* because the formatter action raises after the DISPLAY_MODE field was
\* assigned, the configuration the caller finds equals the values captured
\* at entry.
C16_FailedModeStepRolledBack ==
    [][ModeStepRaised(last') => settings' = settings]_vars

\* C17: in every state reachable through set_option calls, successful or
\* failing, and settings_context entries and exits, the engine's mirrored
\* options equal the stored fields: row limit, column limit and
\* schema-rendering flag.
C17_EngineMirrorsFields ==
    \A key \in DOMAIN pd_options : pd[pd_options[key]] = settings[key]

C17_Witness ==
    /\ last.op = "enter"
    /\ ~last.entered
    /\ last.err = "ValidationError"
    /\ last.kwargs = <<<<"display_max_rows", -1>>>>
    /\ stack # <<>>
    /\ pd.max_rows = 0
    /\ settings.DISPLAY_MAX_ROWS = 0
    /\ settings.DISPLAY_MAX_COLUMNS # DefaultMaxColumns

\* the scope on top of the stack names neither the display mode nor the log
\* level, and its body has left both, and what they drive, as they were at
\* entry
LeavesModeAndLevelAlone(frame) ==
    /\ ~HasKey(NormalizeKwargs(frame.kwargs), "DISPLAY_MODE")
    /\ ~HasKey(NormalizeKwargs(frame.kwargs), "LOG_LEVEL")
    /\ settings.DISPLAY_MODE = frame.orig.DISPLAY_MODE
    /\ settings.LOG_LEVEL = frame.orig.LOG_LEVEL
    /\ fmt = frame.at.fmt
    /\ logger = frame.at.logger

\* C18: when a scope whose overrides name neither DISPLAY_MODE nor
\* LOG_LEVEL, and whose body changed neither, exits, the formatter
\* registration state and the package logger's level equal what they were
\* at scope entry.
C18_RestoreKeepsFormatterAndLogger ==
    [][(last'.op = "exit" /\ LeavesModeAndLevelAlone(stack[Len(stack)]))
       => /\ fmt' = stack[Len(stack)].at.fmt
          /\ logger' = stack[Len(stack)].at.logger]_vars

\* C19: the snapshot taken at scope entry is independent of the live
\* configuration: after a body that changed RENDERABLE_OBJECTS in place
\* (add_renderable_type), the exit leaves RENDERABLE_OBJECTS equal to its
\* contents at entry.
C19_InPlaceChangeUndone ==
    [][(/\ last'.op = "exit"
        /\ last.op = "add_renderable_type"
        /\ settings.RENDERABLE_OBJECTS
              # stack[Len(stack)].orig.RENDERABLE_OBJECTS)
       => settings'.RENDERABLE_OBJECTS
             = stack[Len(stack)].orig.RENDERABLE_OBJECTS]_vars

====
